---- MODULE Spec2Model ----
(***************************************************************************)
(* A model of aws-fsbp: a CDK aspect that visits the nodes of a construct  *)
(* tree and attaches compliance annotations (AWS Foundational Security     *)
(* Best Practices) to the CloudFormation resources it recognises.          *)
(*                                                                         *)
(* JavaScript values are encoded as follows.                               *)
(*   optional boolean | IResolvable : "absent", "true", "false",           *)
(*                                    "unresolved" (a token object)        *)
(*   optional string                : "absent" or the string               *)
(*   optional number                : Undef or Num(n)                      *)
(*   optional array | IResolvable   : NoList, List(s) or ResolvableList    *)
(*   strings that the code takes apart (IAM actions, resources) are        *)
(*   sequences of one-character strings.                                   *)
(***************************************************************************)
EXTENDS Integers, Sequences, FiniteSets, TLC

VARIABLES
    config,     \* the FSBPConfig bound at construction
    tree,       \* the construct tree the synthesis driver walks: a sequence of nodes
    pending,    \* indices of the nodes not visited yet
    messages,   \* annotations attached so far: [id, level, rule, data]
    threw,      \* TRUE once a visit call has thrown
    calls       \* how many times visit has been called on each node

vars == <<config, tree, pending, messages, threw, calls>>

(***************************************************************************)
(* Bounds of the model.                                                    *)
(***************************************************************************)
MaxConfigLeaves == 2   \* leaves explicitly set in the category under test
MaxCalls == 4          \* visit calls of one walk, repeated ones included
MaxNodeEdits == 2      \* properties of an RDS node moved away from its base
MaxLogs == 2           \* length of a CloudWatch log-export list
MaxRules == 2
MaxTree == 3
MaxSettings == 2
MaxStatements == 2     \* statements of an IAM policy document

(***************************************************************************)
(* JavaScript values.                                                      *)
(***************************************************************************)
Flags == {"absent", "true", "false", "unresolved"}

\* Truthiness of an optional boolean | IResolvable: a token is an object.
Truthy(v) == v \in {"true", "unresolved"}

\* isResolvableObject(v)
\* Variant: the value is never taken for a token.
isResolvableObject_never(v) == FALSE

isResolvableObject(v) == v = "unresolved"

Undef == [kind |-> "undefined", value |-> 0]
Num(n) == [kind |-> "number", value |-> n]

\* Truthiness of an optional number.
TruthyNum(x) == x.kind = "number" /\ x.value # 0

NoList == [kind |-> "undefined", items |-> <<>>]
ResolvableList == [kind |-> "resolvable", items |-> <<>>]
List(s) == [kind |-> "array", items |-> s]

\* Array.prototype.some / every, given the callback's result on each element, and
\* Array.prototype.includes.
Some(results) == \E i \in 1..Len(results) : results[i]
Every(results) == \A i \in 1..Len(results) : results[i]
Includes(s, x) == \E i \in 1..Len(s) : s[i] = x

\* All sequences over S of length at most n.
SeqsUpTo(S, n) == UNION {[1..k -> S] : k \in 0..n}

(***************************************************************************)
(* Diagnostics: Annotations.of(node).addError / addWarning.                *)
(***************************************************************************)
addError(rule, data) == <<[level |-> "error", rule |-> rule, data |-> data]>>
addWarning(rule, data) == <<[level |-> "warning", rule |-> rule, data |-> data]>>
None == <<>>

(***************************************************************************)
(* Configuration.  A category is either undefined or an object whose       *)
(* leaves are "absent", "true" or "false".                                 *)
(***************************************************************************)
Categories == {"apigateway", "autoScalingGroup", "dynamodb", "iam", "lambda", "rds", "s3"}

LeafNames(cat) ==
    CASE cat = "apigateway" -> {"logging", "ssl", "xray", "cacheDataEncrypted"}
      [] cat = "autoScalingGroup" -> {"loadBalancerHealthCheck"}
      [] cat = "dynamodb" -> {"autoScaling", "pointInTimeRecovery"}
      [] cat = "iam" -> {"fullAdmin", "wildcardServiceActions"}
      [] cat = "lambda" -> {"supportedRuntimes"}
      [] cat = "rds" -> {"publicAccess", "storageEncrypted", "multiAz", "enhancedMonitoring",
                         "deletionProtection", "logExports", "iamAuth",
                         "autoMinorVersionUpgrades", "copyTagsToSnapshot"}
      [] cat = "s3" -> {"serverSideEncryption", "ssl"}

UndefinedCategory(cat) == [defined |-> FALSE, leaves |-> [l \in LeafNames(cat) |-> "absent"]]
EmptyCategory(cat) == [defined |-> TRUE, leaves |-> [l \in LeafNames(cat) |-> "absent"]]
AllTrueCategory(cat) == [defined |-> TRUE, leaves |-> [l \in LeafNames(cat) |-> "true"]]

\* this.config.<cat>?.<leaf>
Leaf(c, name) == IF c.defined THEN c.leaves[name] ELSE "absent"

\* <value> || true, used as a condition
OrTrue_logicalOr(v) == TRUE

\* <value> ?? true, used as a condition
OrTrue(v) == IF v = "absent" THEN TRUE ELSE v = "true"

\* <value> used as a condition
AsCondition(v) == v = "true"

(***************************************************************************)
(* RDS rule group.                                                         *)
(***************************************************************************)
IsInstance(node) == node.variant = "CfnDBInstance"
IsCluster(node) == node.variant = "CfnDBCluster"

getDescriptor(node) == IF IsInstance(node) THEN "instances" ELSE "cluster"

\* Variant: the finding is attached as a warning.
checkRDSPublicAccess_asWarning(node) ==
    IF IsInstance(node) /\ Truthy(node.publiclyAccessible)
    THEN addWarning("RDS.2", "[RDS.2] RDS DB instances should prohibit public access, determined by the PubliclyAccessible configuration")
    ELSE None

checkRDSPublicAccess(node) ==
    IF IsInstance(node) /\ Truthy(node.publiclyAccessible)
    THEN addError("RDS.2", "[RDS.2] RDS DB instances should prohibit public access, determined by the PubliclyAccessible configuration")
    ELSE None

checkRDSEncryption(node) ==
    IF IsInstance(node) /\ node.dbClusterIdentifier = "absent" /\ ~Truthy(node.storageEncrypted)
    THEN addError("RDS.3",
            IF getDescriptor(node) = "instances"
            THEN "[RDS.3] RDS DB instances should have encryption at rest enabled"
            ELSE "[RDS.3] RDS DB cluster should have encryption at rest enabled")
    ELSE None

checkMultipleAZs(node) ==
    IF IsInstance(node) /\ node.dbClusterIdentifier = "absent" /\ ~Truthy(node.multiAz)
    THEN addError("RDS.5",
            IF getDescriptor(node) = "instances"
            THEN "[RDS.5] RDS DB instances should be configured with multiple Availability Zones"
            ELSE "[RDS.5] RDS DB cluster should be configured with multiple Availability Zones")
    ELSE None

\* Variant: members of a cluster are skipped, as the sibling rules skip them.
checkEnhancedMonitoring_standaloneOnly(node) ==
    IF IsInstance(node) /\ node.dbClusterIdentifier = "absent"
       /\ (~TruthyNum(node.monitoringInterval) \/ node.monitoringInterval.value < 1)
    THEN addError("RDS.6", "[RDS.6] Enhanced monitoring should be configured for RDS DB instances and clusters")
    ELSE None

checkEnhancedMonitoring(node) ==
    IF IsInstance(node)
       /\ (~TruthyNum(node.monitoringInterval) \/ node.monitoringInterval.value < 1)
    THEN addError("RDS.6", "[RDS.6] Enhanced monitoring should be configured for RDS DB instances and clusters")
    ELSE None

Rds8Message(node) ==
    IF getDescriptor(node) = "instances"
    THEN "[RDS.8] RDS DB instances should have deletion protection enabled"
    ELSE "[RDS.8] RDS DB cluster should have deletion protection enabled"

checkDeletionProtection(node) ==
    IF IsCluster(node) /\ ~Truthy(node.deletionProtection)
    THEN addError("RDS.8", Rds8Message(node))
    ELSE IF IsInstance(node) /\ node.dbClusterIdentifier = "absent" /\ ~Truthy(node.deletionProtection)
    THEN addError("RDS.8", Rds8Message(node))
    ELSE None

\* The switch on node.engine.
\* Variant: an engine that is not listed gets the MySQL list.
expectedLogTypes_defaultMySql(engine) ==
    CASE engine \in {"oracle-ee", "oracle-se2"} ->
            <<"alert", "audit", "trace", "listener">>
      [] engine \in {"postgres", "aurora-postgres"} ->
            <<"postgresql", "upgrade">>
      [] engine \in {"sqlserver-ee", "sqlserver-ex", "sqlserver-se", "sqlserver-web"} ->
            <<"error", "agent">>
      [] OTHER -> <<"audit", "error", "general", "slowquery">>

expectedLogTypes(engine) ==
    CASE engine \in {"mysql", "aurora", "aurora-mysql", "mariadb"} ->
            <<"audit", "error", "general", "slowquery">>
      [] engine \in {"oracle-ee", "oracle-se2"} ->
            <<"alert", "audit", "trace", "listener">>
      [] engine \in {"postgres", "aurora-postgres"} ->
            <<"postgresql", "upgrade">>
      [] engine \in {"sqlserver-ee", "sqlserver-ex", "sqlserver-se", "sqlserver-web"} ->
            <<"error", "agent">>
      [] OTHER -> <<"invalid">>

\* Variant: .some in place of .every.
checkLogExports_some(node) ==
    IF IsCluster(node) \/ (IsInstance(node) /\ node.dbClusterIdentifier = "absent")
    THEN IF node.enableCloudwatchLogsExports.kind = "undefined"
            \/ Len(node.enableCloudwatchLogsExports.items) = 0
         THEN addError("RDS.9", "[RDS.9] Database logging should be enabled")
         ELSE LET expected == expectedLogTypes(node.engine)
                  logs == node.enableCloudwatchLogsExports.items
              IN IF ~Some([i \in 1..Len(logs) |-> Includes(expected, logs[i])])
                 THEN addError("RDS.9", "[RDS.9] Database logging should be enabled")
                 ELSE None
    ELSE None

checkLogExports(node) ==
    IF IsCluster(node) \/ (IsInstance(node) /\ node.dbClusterIdentifier = "absent")
    THEN IF node.enableCloudwatchLogsExports.kind = "undefined"
            \/ Len(node.enableCloudwatchLogsExports.items) = 0
         THEN addError("RDS.9", "[RDS.9] Database logging should be enabled")
         ELSE LET expected == expectedLogTypes(node.engine)
                  logs == node.enableCloudwatchLogsExports.items
              IN IF ~Every([i \in 1..Len(logs) |-> Includes(expected, logs[i])])
                 THEN addError("RDS.9", "[RDS.9] Database logging should be enabled")
                 ELSE None
    ELSE None

\* Variant: the instance finding does not look at cluster membership.
checkIAMAuthentication_anyInstance(node) ==
    IF IsInstance(node) /\ ~Truthy(node.enableIamDatabaseAuthentication)
    THEN addError("RDS.10", "[RDS.10] IAM authentication should be configured for RDS instances")
    ELSE IF IsCluster(node) /\ ~Truthy(node.enableIamDatabaseAuthentication)
    THEN addError("RDS.12", "[RDS.12] IAM authentication should be configured for RDS clusters")
    ELSE None

checkIAMAuthentication(node) ==
    IF IsInstance(node) /\ node.dbClusterIdentifier = "absent"
       /\ ~Truthy(node.enableIamDatabaseAuthentication)
    THEN addError("RDS.10", "[RDS.10] IAM authentication should be configured for RDS instances")
    ELSE IF IsCluster(node) /\ ~Truthy(node.enableIamDatabaseAuthentication)
    THEN addError("RDS.12", "[RDS.12] IAM authentication should be configured for RDS clusters")
    ELSE None

checkMinorVersionUpgrades(node) ==
    IF IsInstance(node) /\ ~Truthy(node.autoMinorVersionUpgrade)
    THEN addError("RDS.13", "[RDS.13] RDS automatic minor version upgrades should be enabled")
    ELSE None

\* Variant: the cluster finding is attached as an error.
checkCopyTagsToSnapshot_clusterError(node) ==
    IF ~Truthy(node.copyTagsToSnapshot)
    THEN IF IsCluster(node)
         THEN addError("RDS.16", "[RDS.16] RDS DB clusters should be configured to copy tags to snapshots")
         ELSE IF IsInstance(node) /\ node.dbClusterIdentifier = "absent"
         THEN addWarning("RDS.17", "[RDS.17] RDS DB instances should be configured to copy tags to snapshots")
         ELSE None
    ELSE None

checkCopyTagsToSnapshot(node) ==
    IF ~Truthy(node.copyTagsToSnapshot)
    THEN IF IsCluster(node)
         THEN addWarning("RDS.16", "[RDS.16] RDS DB clusters should be configured to copy tags to snapshots")
         ELSE IF IsInstance(node) /\ node.dbClusterIdentifier = "absent"
         THEN addWarning("RDS.17", "[RDS.17] RDS DB instances should be configured to copy tags to snapshots")
         ELSE None
    ELSE None

\* RDSComplianceChecker.checkCompliance; c is this.config.rds
RdsCheckCompliance(c, node) ==
    (IF OrTrue(Leaf(c, "publicAccess")) THEN checkRDSPublicAccess(node) ELSE None)
    \o (IF OrTrue(Leaf(c, "storageEncrypted")) THEN checkRDSEncryption(node) ELSE None)
    \o (IF OrTrue(Leaf(c, "multiAz")) THEN checkMultipleAZs(node) ELSE None)
    \o (IF OrTrue(Leaf(c, "enhancedMonitoring")) THEN checkEnhancedMonitoring(node) ELSE None)
    \o (IF OrTrue(Leaf(c, "deletionProtection")) THEN checkDeletionProtection(node) ELSE None)
    \o (IF OrTrue(Leaf(c, "logExports")) THEN checkLogExports(node) ELSE None)
    \o (IF OrTrue(Leaf(c, "iamAuth")) THEN checkIAMAuthentication(node) ELSE None)
    \o (IF OrTrue(Leaf(c, "autoMinorVersionUpgrades")) THEN checkMinorVersionUpgrades(node) ELSE None)
    \o (IF OrTrue(Leaf(c, "copyTagsToSnapshot")) THEN checkCopyTagsToSnapshot(node) ELSE None)

(***************************************************************************)
(* Outcome of a call: the diagnostics it attached and whether it threw.    *)
(***************************************************************************)
Returned(d) == [diags |-> d, threw |-> FALSE]
Thrown == [diags |-> <<>>, threw |-> TRUE]

\* Statement sequencing: r2 runs only when r1 returned.
AndThen(r1, r2) ==
    IF r1.threw THEN r1 ELSE [diags |-> r1.diags \o r2.diags, threw |-> r2.threw]

(***************************************************************************)
(* IAM rule group.  Strings are sequences of characters.                   *)
(***************************************************************************)
Star == <<"*">>
ColonStar == <<":", "*">>
S3Star == <<"s", "3", ":", "*">>
Ec2DescribeStar == <<"e", "c", "2", ":", "D", "e", "s", "c", "r", "i", "b", "e", "*">>
BucketArnStar == <<"a", "r", "n", ":", "b", "u", "c", "k", "e", "t", "/", "*">>

\* String.prototype.endsWith
endsWith(a, suffix) ==
    /\ Len(a) >= Len(suffix)
    /\ SubSeq(a, Len(a) - Len(suffix) + 1, Len(a)) = suffix

IsStar(a) == a = Star
EndsWithColonStar(a) == endsWith(a, ColonStar)

\* The callback of statements.some in checkIAMPolicyFullAdmin:
\* "true", "false", or "throw" when .some is called on a value that is no array.
fullAdminStatement(s) ==
    IF s.effect # "Allow" THEN "false"
    ELSE IF s.action.kind # "array" THEN "throw"
    ELSE IF ~Some([i \in 1..Len(s.action.items) |-> IsStar(s.action.items[i])]) THEN "false"
    ELSE IF s.resource.kind # "array" THEN "throw"
    ELSE IF Some([i \in 1..Len(s.resource.items) |-> IsStar(s.resource.items[i])]) THEN "true" ELSE "false"

\* The callback of statements.some in checkIAMPolicyServiceWildcards.
serviceWildcardStatement(s) ==
    IF s.effect # "Allow" THEN "false"
    ELSE IF s.action.kind # "array" THEN "throw"
    ELSE IF Some([i \in 1..Len(s.action.items) |-> EndsWithColonStar(s.action.items[i])]) THEN "true" ELSE "false"

\* statements.some(callback): the statements are tried in order and the first
\* one whose callback does not return false decides (true, or the call throws).
someStatement(results) ==
    LET decisive == {i \in 1..Len(results) : results[i] # "false"}
    IN IF decisive = {} THEN "false"
       ELSE results[CHOOSE i \in decisive : \A j \in decisive : i <= j]

\* Variant: the statements are read whether or not the document owns them.
checkIAMPolicyFullAdmin_anyDocument(node) ==
    LET statements == node.policyDocument.statements
    IN IF statements.kind = "undefined" THEN Returned(None)
       ELSE IF statements.kind # "array" THEN Thrown
       ELSE LET r == someStatement([i \in 1..Len(statements.items) |-> fullAdminStatement(statements.items[i])])
            IN IF r = "throw" THEN Thrown
               ELSE IF r = "true"
               THEN Returned(addError("IAM.1", "[IAM.1] IAM policies should not allow full \"*\" administrative privileges."))
               ELSE Returned(None)

checkIAMPolicyFullAdmin(node) ==
    IF node.policyDocument.hasStatements
    THEN LET statements == node.policyDocument.statements
         IN IF statements.kind # "array" THEN Thrown
            ELSE LET r == someStatement([i \in 1..Len(statements.items) |-> fullAdminStatement(statements.items[i])])
                 IN IF r = "throw" THEN Thrown
                    ELSE IF r = "true"
                    THEN Returned(addError("IAM.1", "[IAM.1] IAM policies should not allow full \"*\" administrative privileges."))
                    ELSE Returned(None)
    ELSE Returned(None)

checkIAMPolicyServiceWildcards(node) ==
    IF node.policyDocument.hasStatements
    THEN LET statements == node.policyDocument.statements
         IN IF statements.kind # "array" THEN Thrown
            ELSE LET r == someStatement([i \in 1..Len(statements.items) |-> serviceWildcardStatement(statements.items[i])])
                 IN IF r = "throw" THEN Thrown
                    ELSE IF r = "true"
                    THEN Returned(addError("IAM.21", "[IAM.21] IAM customer managed policies that you create should not allow wildcard actions for services."))
                    ELSE Returned(None)
    ELSE Returned(None)

\* IAMPolicyComplianceChecker.checkCompliance; c is this.config.iam
IamCheckCompliance(c, node) ==
    AndThen(IF OrTrue(Leaf(c, "fullAdmin")) THEN checkIAMPolicyFullAdmin(node) ELSE Returned(None),
            IF OrTrue(Leaf(c, "wildcardServiceActions"))
            THEN checkIAMPolicyServiceWildcards(node) ELSE Returned(None))

(***************************************************************************)
(* Lambda rule group.                                                      *)
(***************************************************************************)
\* Variant: the Corretto build of Java 8 is matched by its family name only.
supportedLambdaRuntimes_byFamily ==
    <<"nodejs14.x", "nodejs12.x", "nodejs10.x", "python3.8", "python3.7", "python3.6",
      "ruby2.7", "ruby2.5", "java11", "java8", "go1.x", "dotnetcore3.1", "dotnetcore2.1">>

supportedLambdaRuntimes ==
    <<"nodejs14.x", "nodejs12.x", "nodejs10.x", "python3.8", "python3.7", "python3.6",
      "ruby2.7", "ruby2.5", "java11", "java8", "java8.al2", "go1.x",
      "dotnetcore3.1", "dotnetcore2.1">>

checkLambdaSupportedRuntime(node) ==
    IF ~Includes(supportedLambdaRuntimes, node.runtime)
    THEN addError("Lambda.2", "[Lambda.2] Lambda functions should use supported runtimes")
    ELSE None

\* LambdaComplianceChecker.checkCompliance; c is this.config.lambda
LambdaCheckCompliance(c, node) ==
    IF OrTrue(Leaf(c, "supportedRuntimes")) THEN checkLambdaSupportedRuntime(node) ELSE None

(***************************************************************************)
(* The two declared rules without a body, and the rule groups of the       *)
(* single-class aspect that call them before the configured rules.         *)
(***************************************************************************)
\* Variant: the snapshot rule reports every RDS construct.
checkSnapshotPublicAccess_raises(node) ==
    addError("RDS.1", "[RDS.1] RDS snapshots should be private")

checkSnapshotPublicAccess(node) == None
checkLambdaPublicAccess(node) == None

checkRDSCompliance(c, node) == checkSnapshotPublicAccess(node) \o RdsCheckCompliance(c, node)
checkLambdaCompliance(c, node) ==
    checkLambdaPublicAccess(node) \o LambdaCheckCompliance(c, node)

(***************************************************************************)
(* Auto Scaling rule group.                                                *)
(***************************************************************************)
\* node.loadBalancerNames?.length ?? 0 > 0, which parses as
\* node.loadBalancerNames?.length ?? (0 > 0)
hasLoadBalancer(node) ==
    IF node.loadBalancerNames.kind = "undefined"
    THEN 0 > 0
    ELSE Len(node.loadBalancerNames.items) # 0

checkLoadBalancerHealthCheck(node) ==
    IF hasLoadBalancer(node)
    THEN IF node.healthCheckType \in {"absent", ""} \/ ~TruthyNum(node.healthCheckGracePeriod)
         THEN addError("AutoScaling.1", "[AutoScaling.1] Auto Scaling groups associated with a load balancer should use load balancer health checks")
         ELSE None
    ELSE None

\* AutoScalingGroupComplianceChecker.checkCompliance; c is this.config.autoScalingGroup
AsgCheckCompliance(c, node) ==
    IF OrTrue(Leaf(c, "loadBalancerHealthCheck")) THEN checkLoadBalancerHealthCheck(node) ELSE None

(***************************************************************************)
(* DynamoDB rule group.                                                    *)
(***************************************************************************)
\* Variant: only a sub-object that lacks both attributes is reported.
checkAutoScaling_bothMissing(node) ==
    IF node.scopeIsTable
    THEN IF node.scope.hasTableScaling
         THEN IF ~node.scope.tableScaling.hasScalableReadAttribute
                 /\ ~node.scope.tableScaling.hasScalableWriteAttribute
              THEN addError("DynamoDB.1", "[DynamoDB.1] DynamoDB tables should automatically scale capacity with demand")
              ELSE None
         ELSE addError("DynamoDB.1", "[DynamoDB.1] DynamoDB tables should automatically scale capacity with demand")
    ELSE None

\* Variant: a table whose scope is not a Table construct is reported.
checkAutoScaling_flagsUnowned(node) ==
    IF node.scopeIsTable
    THEN IF node.scope.hasTableScaling
         THEN IF ~node.scope.tableScaling.hasScalableReadAttribute
                 \/ ~node.scope.tableScaling.hasScalableWriteAttribute
              THEN addError("DynamoDB.1", "[DynamoDB.1] DynamoDB tables should automatically scale capacity with demand")
              ELSE None
         ELSE addError("DynamoDB.1", "[DynamoDB.1] DynamoDB tables should automatically scale capacity with demand")
    ELSE addError("DynamoDB.1", "[DynamoDB.1] DynamoDB tables should automatically scale capacity with demand")

checkAutoScaling(node) ==
    IF node.scopeIsTable
    THEN IF node.scope.hasTableScaling
         THEN IF ~node.scope.tableScaling.hasScalableReadAttribute
                 \/ ~node.scope.tableScaling.hasScalableWriteAttribute
              THEN addError("DynamoDB.1", "[DynamoDB.1] DynamoDB tables should automatically scale capacity with demand")
              ELSE None
         ELSE addError("DynamoDB.1", "[DynamoDB.1] DynamoDB tables should automatically scale capacity with demand")
    ELSE None

\* Variant: an Unresolved specification is read like a known one.
checkPointInTimeRecovery_readsToken(node) ==
    IF node.pointInTimeRecoverySpecification.kind = "undefined"
    THEN addError("DynamoDB.2", "[DynamoDB.2] DynamoDB tables should have point-in-time recovery enabled")
    ELSE IF ~Truthy(node.pointInTimeRecoverySpecification.pointInTimeRecoveryEnabled)
    THEN addError("DynamoDB.2", "[DynamoDB.2] DynamoDB tables should have point-in-time recovery enabled")
    ELSE None

checkPointInTimeRecovery(node) ==
    IF node.pointInTimeRecoverySpecification.kind = "undefined"
    THEN addError("DynamoDB.2", "[DynamoDB.2] DynamoDB tables should have point-in-time recovery enabled")
    ELSE IF node.pointInTimeRecoverySpecification.kind # "resolvable"
            /\ ~Truthy(node.pointInTimeRecoverySpecification.pointInTimeRecoveryEnabled)
    THEN addError("DynamoDB.2", "[DynamoDB.2] DynamoDB tables should have point-in-time recovery enabled")
    ELSE None

\* DynamoDBComplianceChecker.checkCompliance; c is this.config.dynamodb
DynamoCheckCompliance(c, node) ==
    (IF OrTrue(Leaf(c, "autoScaling")) THEN checkAutoScaling(node) ELSE None)
    \o (IF OrTrue(Leaf(c, "pointInTimeRecovery")) THEN checkPointInTimeRecovery(node) ELSE None)

(***************************************************************************)
(* API Gateway rule group.  A method setting is UnresolvedSetting or a     *)
(* record of loggingLevel, cachingEnabled and cacheDataEncrypted.          *)
(***************************************************************************)
UnresolvedSetting ==
    [resolvable |-> TRUE, loggingLevel |-> "absent", cachingEnabled |-> "absent",
     cacheDataEncrypted |-> "absent"]
Setting(level, caching, encrypted) ==
    [resolvable |-> FALSE, loggingLevel |-> level, cachingEnabled |-> caching,
     cacheDataEncrypted |-> encrypted]

\* Variant: a method setting counts only when its logging level is "OFF".
loggingOff_explicit(m) == ~m.resolvable /\ m.loggingLevel = "OFF"

loggingOff(m) == ~m.resolvable /\ (m.loggingLevel = "absent" \/ m.loggingLevel = "OFF")
cacheNotEncrypted(m) == ~m.resolvable /\ Truthy(m.cachingEnabled) /\ ~Truthy(m.cacheDataEncrypted)

\* Variant: every method setting with logging off is reported on its own.
checkAPILogging_perEntry(node) ==
    IF node.methodSettings.kind = "undefined"
    THEN addError("APIGateway.1", "[APIGateway.1] API Gateway REST and WebSocket API logging should be enabled")
    ELSE IF node.methodSettings.kind # "resolvable"
    THEN LET off == SelectSeq(node.methodSettings.items, loggingOff)
         IN [k \in 1..Len(off) |->
                addError("APIGateway.1", "[APIGateway.1] API Gateway REST and WebSocket API logging should be enabled")[1]]
    ELSE None

checkAPILogging(node) ==
    IF node.methodSettings.kind = "undefined"
    THEN addError("APIGateway.1", "[APIGateway.1] API Gateway REST and WebSocket API logging should be enabled")
    ELSE IF node.methodSettings.kind # "resolvable" /\ Some([i \in 1..Len(node.methodSettings.items) |-> loggingOff(node.methodSettings.items[i])])
    THEN addError("APIGateway.1", "[APIGateway.1] API Gateway REST and WebSocket API logging should be enabled")
    ELSE None

checkSSL(node) ==
    IF node.clientCertificateId \in {"absent", ""}
    THEN addError("APIGateway.2", "[APIGateway.2] API Gateway REST API stages should be configured to use SSL certificates for backend authentication")
    ELSE None

checkXRay(node) ==
    IF ~isResolvableObject(node.tracingEnabled) /\ ~Truthy(node.tracingEnabled)
    THEN addError("APIGateway.3", "[APIGateway.3] API Gateway REST API stages should have AWS X-Ray tracing enabled")
    ELSE None

\* Variant: a list without entries is taken for no list.
checkCacheEncrypted_emptyAsNone(node) ==
    IF node.methodSettings.kind = "undefined"
       \/ (node.methodSettings.kind = "array" /\ node.methodSettings.items = <<>>)
    THEN addError("APIGateway.5", "[APIGateway.5] API Gateway REST API cache data should be encrypted at rest")
    ELSE IF node.methodSettings.kind # "resolvable" /\ Some([i \in 1..Len(node.methodSettings.items) |-> cacheNotEncrypted(node.methodSettings.items[i])])
    THEN addError("APIGateway.5", "[APIGateway.5] API Gateway REST API cache data should be encrypted at rest")
    ELSE None

checkCacheEncrypted(node) ==
    IF node.methodSettings.kind = "undefined"
    THEN addError("APIGateway.5", "[APIGateway.5] API Gateway REST API cache data should be encrypted at rest")
    ELSE IF node.methodSettings.kind # "resolvable" /\ Some([i \in 1..Len(node.methodSettings.items) |-> cacheNotEncrypted(node.methodSettings.items[i])])
    THEN addError("APIGateway.5", "[APIGateway.5] API Gateway REST API cache data should be encrypted at rest")
    ELSE None

\* ApiGatewayComplianceChecker.checkCompliance; c is this.config.apigateway
ApiGatewayCheckCompliance(c, node) ==
    (IF OrTrue(Leaf(c, "logging")) THEN checkAPILogging(node) ELSE None)
    \o (IF OrTrue(Leaf(c, "ssl")) THEN checkSSL(node) ELSE None)
    \o (IF OrTrue(Leaf(c, "xray")) THEN checkXRay(node) ELSE None)
    \o (IF OrTrue(Leaf(c, "cacheDataEncrypted")) THEN checkCacheEncrypted(node) ELSE None)

(***************************************************************************)
(* S3 rule group.  A rule of the bucket encryption is UnresolvedRule or a  *)
(* record of bucketKeyEnabled and serverSideEncryptionByDefault.           *)
(***************************************************************************)
NoDefault == [kind |-> "undefined", sseAlgorithm |-> "absent"]
ResolvableDefault == [kind |-> "resolvable", sseAlgorithm |-> "absent"]
ByDefault(alg) == [kind |-> "object", sseAlgorithm |-> alg]

UnresolvedRule ==
    [resolvable |-> TRUE, bucketKeyEnabled |-> "absent", serverSideEncryptionByDefault |-> NoDefault]
EncryptionRule(key, default) ==
    [resolvable |-> FALSE, bucketKeyEnabled |-> key, serverSideEncryptionByDefault |-> default]

NoEncryption == [kind |-> "undefined", serverSideEncryptionConfiguration |-> NoList]
ResolvableEncryption == [kind |-> "resolvable", serverSideEncryptionConfiguration |-> NoList]
Encryption(rules) == [kind |-> "object", serverSideEncryptionConfiguration |-> rules]

checkServerSideEncryption(node) ==
    IF node.variant = "CfnBucket"
    THEN IF node.bucketEncryption.kind = "undefined" \/ node.bucketEncryption.kind = "resolvable"
         THEN addError("S3.4", "[S3.4] S3 buckets should have server-side encryption enabled")
         ELSE LET rules == node.bucketEncryption.serverSideEncryptionConfiguration
              IN IF \/ rules.kind = "undefined"
                    \/ rules.kind = "resolvable"
                    \/ Len(rules.items) = 0
                    \/ rules.items[1].resolvable
                 THEN addError("S3.4", "[S3.4] S3 buckets should have server-side encryption enabled.2")
                 ELSE LET ssec == rules.items[1]
                      IN IF isResolvableObject(ssec.bucketKeyEnabled) \/ ssec.bucketKeyEnabled = "false"
                         THEN addError("S3.4", "[S3.4] S3 buckets should have server-side encryption enabled.3")
                         ELSE IF \/ ssec.serverSideEncryptionByDefault.kind = "undefined"
                                 \/ ssec.serverSideEncryptionByDefault.kind = "resolvable"
                                 \/ ssec.serverSideEncryptionByDefault.sseAlgorithm \notin {"AES-256", "aws:kms"}
                         THEN addError("S3.4", "[S3.4] S3 buckets should have server-side encryption enabled.4")
                         ELSE None
    ELSE None

\* S3ComplianceChecker.checkSSL: node.policyDocument?.Statement?.length === 0
S3checkSSL(node) ==
    IF node.variant = "CfnBucketPolicy"
    THEN IF node.policyDocument.Statement.kind = "array"
            /\ Len(node.policyDocument.Statement.items) = 0
         THEN addError("S3.5", "[S3.5] S3 buckets should require requests to use Secure Socket Layer")
         ELSE None
    ELSE None

\* S3ComplianceChecker.checkCompliance; c is this.config.s3
S3CheckCompliance(c, node) ==
    IF AsCondition(Leaf(c, "serverSideEncryption")) THEN checkServerSideEncryption(node)
    ELSE IF AsCondition(Leaf(c, "ssl")) THEN S3checkSSL(node)
    ELSE None

(***************************************************************************)
(* The aspect.  The constructor hands each category of the config to the   *)
(* checker of that rule group; the default argument enables every rule of  *)
(* the six groups it wires.                                                *)
(***************************************************************************)
DefaultConfig ==
    [cat \in Categories |-> IF cat = "s3" THEN UndefinedCategory(cat) ELSE AllTrueCategory(cat)]

\* AWSFoundationalSecurityBestPracticesChecker.visit
\* Variant: a construct of no known variant is rejected.
visit_rejectsUnknown(cfg, node) ==
    IF node.variant = "CfnStage"
    THEN Returned(ApiGatewayCheckCompliance(cfg["apigateway"], node))
    ELSE IF node.variant = "CfnAutoScalingGroup"
    THEN Returned(AsgCheckCompliance(cfg["autoScalingGroup"], node))
    ELSE IF node.variant = "CfnTable"
    THEN Returned(DynamoCheckCompliance(cfg["dynamodb"], node))
    ELSE IF node.variant = "CfnPolicy"
    THEN IamCheckCompliance(cfg["iam"], node)
    ELSE IF node.variant = "CfnFunction"
    THEN Returned(LambdaCheckCompliance(cfg["lambda"], node))
    ELSE IF node.variant = "CfnDBInstance" \/ node.variant = "CfnDBCluster"
    THEN Returned(RdsCheckCompliance(cfg["rds"], node))
    ELSE Thrown

visit(cfg, node) ==
    IF node.variant = "CfnStage"
    THEN Returned(ApiGatewayCheckCompliance(cfg["apigateway"], node))
    ELSE IF node.variant = "CfnAutoScalingGroup"
    THEN Returned(AsgCheckCompliance(cfg["autoScalingGroup"], node))
    ELSE IF node.variant = "CfnTable"
    THEN Returned(DynamoCheckCompliance(cfg["dynamodb"], node))
    ELSE IF node.variant = "CfnPolicy"
    THEN IamCheckCompliance(cfg["iam"], node)
    ELSE IF node.variant = "CfnFunction"
    THEN Returned(LambdaCheckCompliance(cfg["lambda"], node))
    ELSE IF node.variant = "CfnDBInstance" \/ node.variant = "CfnDBCluster"
    THEN Returned(RdsCheckCompliance(cfg["rds"], node))
    ELSE Returned(None)

\* The constructs S3ComplianceChecker takes.  The aspect builds no such checker and
\* its visit has no branch for them.
S3Variants == {"CfnBucket", "CfnBucketPolicy"}

\* The single-class aspect: checkRestApiCompliance, which takes a CfnRestApi or a
\* CfnStage and whose two rules look at a stage only, and visit.
checkRestApiCompliance(c, node) ==
    (IF OrTrue(Leaf(c, "logging")) /\ node.variant = "CfnStage"
     THEN checkAPILogging(node) ELSE None)
    \o (IF OrTrue(Leaf(c, "ssl")) /\ node.variant = "CfnStage"
        THEN checkSSL(node) ELSE None)

visitSingleClass(cfg, node) ==
    IF node.variant = "CfnRestApi" \/ node.variant = "CfnStage"
    THEN Returned(checkRestApiCompliance(cfg["apigateway"], node))
    ELSE IF node.variant = "CfnPolicy"
    THEN IamCheckCompliance(cfg["iam"], node)
    ELSE IF node.variant = "CfnFunction"
    THEN Returned(checkLambdaCompliance(cfg["lambda"], node))
    ELSE IF node.variant = "CfnDBInstance" \/ node.variant = "CfnDBCluster"
    THEN Returned(checkRDSCompliance(cfg["rds"], node))
    ELSE IF node.variant = "CfnTable"
    THEN Returned(DynamoCheckCompliance(cfg["dynamodb"], node))
    ELSE Returned(None)

\* The annotations of one call, attached to node i.
Attach(i, diags) ==
    [k \in 1..Len(diags) |->
        [id |-> i, level |-> diags[k].level, rule |-> diags[k].rule, data |-> diags[k].data]]

(***************************************************************************)
(* Actions.  The synthesis driver visits each node of the tree once, in an *)
(* order of its own; a call that throws aborts the synthesis.  A caller    *)
(* that holds the aspect can call visit on a node again.                   *)
(***************************************************************************)
\* Variant: the aspect keeps the constructs it has checked and skips a construct
\* whose properties it has seen.
visitCall_memoised(i) ==
    LET r == visit(config, tree[i])
        seen == \E j \in 1..Len(tree) : calls[j] > 0 /\ tree[j] = tree[i]
    IN /\ messages' = messages \o Attach(i, IF seen THEN None ELSE r.diags)
       /\ threw' = r.threw
       /\ calls' = [calls EXCEPT ![i] = @ + 1]
       /\ UNCHANGED <<config, tree>>

\* One call visit(tree[i]) on the aspect.  No checker assigns a field: the config
\* bound at construction is all a call reads besides the node.
visitCall(i) ==
    LET r == visit(config, tree[i])
    IN /\ messages' = messages \o Attach(i, r.diags)
       /\ threw' = r.threw
       /\ calls' = [calls EXCEPT ![i] = @ + 1]
       /\ UNCHANGED <<config, tree>>

RECURSIVE SumTo(_, _)
SumTo(f, n) == IF n = 0 THEN 0 ELSE f[n] + SumTo(f, n - 1)
\* The visit calls made so far.
CallsMade == SumTo(calls, Len(tree))

Visit(i) ==
    /\ ~threw
    /\ i \in pending
    /\ visitCall(i)
    /\ pending' = pending \ {i}

\* visit called again on a node the same aspect has visited.
VisitAgain(i) ==
    /\ ~threw
    /\ i \in (1..Len(tree)) \ pending
    /\ CallsMade < MaxCalls
    /\ visitCall(i)
    /\ UNCHANGED pending

VisitS3(i) ==
    /\ ~threw
    /\ i \in pending
    /\ tree[i].variant \in S3Variants
    /\ messages' = messages \o Attach(i, S3CheckCompliance(config["s3"], tree[i]))
    /\ threw' = FALSE
    /\ pending' = pending \ {i}
    /\ calls' = [calls EXCEPT ![i] = @ + 1]
    /\ UNCHANGED <<config, tree>>

VisitNode == \E i \in pending : Visit(i)
VisitNodeAgain == \E i \in (1..Len(tree)) \ pending : VisitAgain(i)
VisitBucket == \E i \in pending : VisitS3(i)

\* visit of the single-class aspect.
VisitDeclared(i) ==
    /\ ~threw
    /\ i \in pending
    /\ LET r == visitSingleClass(config, tree[i])
       IN /\ messages' = messages \o Attach(i, r.diags)
          /\ threw' = r.threw
    /\ pending' = pending \ {i}
    /\ calls' = [calls EXCEPT ![i] = @ + 1]
    /\ UNCHANGED <<config, tree>>

VisitAspect == \E i \in pending : VisitDeclared(i)

(***************************************************************************)
(* Inputs: configurations.                                                 *)
(***************************************************************************)
\* The leaf assignments of a category with at most k leaves set.
RECURSIVE LeavesSet(_, _)
LeavesSet(cat, k) ==
    IF k = 0 THEN {[l \in LeafNames(cat) |-> "absent"]}
    ELSE LET fewer == LeavesSet(cat, k - 1)
         IN fewer \cup {[a EXCEPT ![l] = v] : a \in fewer, l \in LeafNames(cat), v \in {"true", "false"}}

CategoryConfigs(cat) ==
    {UndefinedCategory(cat)}
    \cup {[defined |-> TRUE, leaves |-> a] : a \in LeavesSet(cat, MaxConfigLeaves)}

AllUndefinedConfig == [cat \in Categories |-> UndefinedCategory(cat)]

\* The configs of Spec: the default one, and those that set one category.
Configs ==
    {DefaultConfig}
    \cup UNION {{[AllUndefinedConfig EXCEPT ![cat] = c] : c \in CategoryConfigs(cat)} :
                    cat \in Categories \ {"s3"}}

AllFalseCategory(cat) == [defined |-> TRUE, leaves |-> [l \in LeafNames(cat) |-> "false"]]

\* The configs of the specifications that explore the nodes of one rule group.
GroupConfigs(cat) ==
    {DefaultConfig, AllUndefinedConfig, [AllUndefinedConfig EXCEPT ![cat] = AllFalseCategory(cat)]}

(***************************************************************************)
(* Inputs: RDS nodes.                                                      *)
(***************************************************************************)
CompliantInstance ==
    [variant |-> "CfnDBInstance", dbClusterIdentifier |-> "absent",
     publiclyAccessible |-> "false", storageEncrypted |-> "true", multiAz |-> "true",
     monitoringInterval |-> Num(60), deletionProtection |-> "true",
     enableCloudwatchLogsExports |-> List(<<"error">>), engine |-> "sqlserver-ee",
     enableIamDatabaseAuthentication |-> "true", autoMinorVersionUpgrade |-> "true",
     copyTagsToSnapshot |-> "true"]

ViolatingInstance ==
    [variant |-> "CfnDBInstance", dbClusterIdentifier |-> "absent",
     publiclyAccessible |-> "true", storageEncrypted |-> "false", multiAz |-> "false",
     monitoringInterval |-> Undef, deletionProtection |-> "false",
     enableCloudwatchLogsExports |-> NoList, engine |-> "mysql",
     enableIamDatabaseAuthentication |-> "false", autoMinorVersionUpgrade |-> "false",
     copyTagsToSnapshot |-> "false"]

\* An instance that belongs to a cluster.
MemberOf(instance) == [instance EXCEPT !.dbClusterIdentifier = "cluster-ref"]

\* A cluster has none of the instance-only properties.
CompliantCluster ==
    [variant |-> "CfnDBCluster", dbClusterIdentifier |-> "absent",
     publiclyAccessible |-> "absent", storageEncrypted |-> "true", multiAz |-> "absent",
     monitoringInterval |-> Undef, deletionProtection |-> "true",
     enableCloudwatchLogsExports |-> List(<<"audit", "error", "general", "slowquery">>),
     engine |-> "aurora-mysql",
     enableIamDatabaseAuthentication |-> "true", autoMinorVersionUpgrade |-> "absent",
     copyTagsToSnapshot |-> "true"]

ViolatingCluster ==
    [CompliantCluster EXCEPT !.storageEncrypted = "false", !.deletionProtection = "false",
                             !.enableCloudwatchLogsExports = List(<<>>),
                             !.enableIamDatabaseAuthentication = "false",
                             !.copyTagsToSnapshot = "false"]

RdsBases == {CompliantInstance, ViolatingInstance, CompliantCluster, ViolatingCluster}

ListedEngines ==
    {"mysql", "aurora", "aurora-mysql", "mariadb", "oracle-ee", "oracle-se2",
     "postgres", "aurora-postgres", "sqlserver-ee", "sqlserver-ex", "sqlserver-se",
     "sqlserver-web"}
Engines == ListedEngines \cup {"db2", "absent"}

RealLogTypes ==
    {"audit", "error", "general", "slowquery", "alert", "trace", "listener",
     "postgresql", "upgrade", "agent"}
LogTypes == RealLogTypes \cup {"invalid"}
LogLists == {NoList} \cup {List(l) : l \in SeqsUpTo(LogTypes, MaxLogs)}

FlagProperties(node) ==
    IF IsInstance(node)
    THEN {"publiclyAccessible", "storageEncrypted", "multiAz", "deletionProtection",
          "enableIamDatabaseAuthentication", "autoMinorVersionUpgrade", "copyTagsToSnapshot"}
    ELSE {"storageEncrypted", "deletionProtection", "enableIamDatabaseAuthentication",
          "copyTagsToSnapshot"}

\* The nodes that differ from the node in one property.
EditOnce(node) ==
    {[node EXCEPT ![f] = v] : f \in FlagProperties(node), v \in Flags}
    \cup {[node EXCEPT !.engine = e] : e \in {"absent", "postgres", "db2", "sqlserver-ee"}}
    \cup {[node EXCEPT !.enableCloudwatchLogsExports = l] :
            l \in {NoList, List(<<>>), List(<<"error">>),
                   List(<<"postgresql", "upgrade", "slowquery">>)}}
    \cup (IF IsInstance(node)
          THEN {[node EXCEPT !.monitoringInterval = m] : m \in {Undef, Num(0), Num(-1), Num(1), Num(60)}}
               \cup {[node EXCEPT !.dbClusterIdentifier = d] : d \in {"absent", "cluster-ref"}}
          ELSE {})

RECURSIVE Edited(_, _)
Edited(nodes, k) ==
    IF k = 0 THEN nodes ELSE Edited(nodes \cup UNION {EditOnce(n) : n \in nodes}, k - 1)

\* Every engine with every log-export list, on a cluster, an instance and a member.
LogNodes ==
    {[b EXCEPT !.engine = e, !.enableCloudwatchLogsExports = l] :
        b \in {CompliantInstance, CompliantCluster, MemberOf(CompliantInstance)},
        e \in Engines, l \in LogLists}

RdsNodes == Edited(RdsBases, MaxNodeEdits) \cup LogNodes

(***************************************************************************)
(* Inputs: IAM policies.                                                   *)
(***************************************************************************)
ActionLists == {NoList, List(<<Star>>), List(<<S3Star>>), List(<<Ec2DescribeStar, Star>>),
                List(<<Ec2DescribeStar>>)}
ResourceLists == {NoList, List(<<Star>>), List(<<BucketArnStar>>), List(<<BucketArnStar, Star>>)}

Statements ==
    {[effect |-> e, action |-> a, resource |-> r] :
        e \in {"Allow", "Deny"}, a \in ActionLists, r \in ResourceLists}

Policy(statements) ==
    [variant |-> "CfnPolicy", policyDocument |-> [hasStatements |-> TRUE, statements |-> statements]]

\* A policy document that has no "statements" property.
RawPolicy ==
    [variant |-> "CfnPolicy", policyDocument |-> [hasStatements |-> FALSE, statements |-> NoList]]

\* The last one keeps wildcard statements elsewhere than in an own "statements" property.
IamNodes ==
    {RawPolicy, Policy(ResolvableList),
     [Policy(List(<<[effect |-> "Allow", action |-> List(<<Star, S3Star>>),
                     resource |-> List(<<Star>>)]>>))
        EXCEPT !.policyDocument.hasStatements = FALSE]}
    \cup {Policy(List(s)) : s \in SeqsUpTo(Statements, MaxStatements)}

Allow(a, r) == [effect |-> "Allow", action |-> List(a), resource |-> List(r)]

(***************************************************************************)
(* Inputs: the nodes of the other rule groups, and a node of no group.     *)
(***************************************************************************)
Function(runtime) == [variant |-> "CfnFunction", runtime |-> runtime]

Group(names, type, grace) ==
    [variant |-> "CfnAutoScalingGroup", loadBalancerNames |-> names,
     targetGroupArns |-> NoList, healthCheckType |-> type, healthCheckGracePeriod |-> grace]

NoScaling == [hasScalableReadAttribute |-> FALSE, hasScalableWriteAttribute |-> FALSE]
Scaling(read, write) == [hasScalableReadAttribute |-> read, hasScalableWriteAttribute |-> write]
NoScope == [hasTableScaling |-> FALSE, tableScaling |-> NoScaling]
NoRecovery == [kind |-> "undefined", pointInTimeRecoveryEnabled |-> "absent"]
ResolvableRecovery == [kind |-> "resolvable", pointInTimeRecoveryEnabled |-> "absent"]
Recovery(enabled) == [kind |-> "object", pointInTimeRecoveryEnabled |-> enabled]

\* A CfnTable whose scope is a Table construct.
Table(hasScaling, scaling, recovery) ==
    [variant |-> "CfnTable", scopeIsTable |-> TRUE,
     scope |-> [hasTableScaling |-> hasScaling, tableScaling |-> scaling],
     pointInTimeRecoverySpecification |-> recovery]

Stage(settings, certificate, tracing) ==
    [variant |-> "CfnStage", methodSettings |-> settings, clientCertificateId |-> certificate,
     tracingEnabled |-> tracing]

Bucket(encryption) == [variant |-> "CfnBucket", bucketEncryption |-> encryption]
BucketPolicy(statement) ==
    [variant |-> "CfnBucketPolicy", policyDocument |-> [Statement |-> statement]]

Fixtures ==
    {CompliantInstance, ViolatingInstance, MemberOf(ViolatingInstance),
     CompliantCluster, ViolatingCluster,
     Policy(List(<<Allow(<<Star>>, <<Star>>)>>)),
     Policy(List(<<Allow(<<S3Star>>, <<Star>>)>>)),
     Policy(List(<<Allow(<<Star, S3Star>>, <<Star>>)>>)),
     Policy(List(<<Allow(<<Ec2DescribeStar>>, <<Star>>)>>)),
     RawPolicy,
     Function("nodejs14.x"), Function("nodejs"), Function("absent"),
     Group(List(<<"classic-lb">>), "absent", Undef),
     Group(List(<<"classic-lb">>), "ELB", Num(300)),
     Group(NoList, "absent", Undef),
     Table(FALSE, NoScaling, NoRecovery),
     Table(TRUE, Scaling(TRUE, FALSE), Recovery("false")),
     Table(TRUE, Scaling(TRUE, TRUE), Recovery("true")),
     Stage(NoList, "absent", "false"),
     Stage(List(<<Setting("OFF", "true", "false")>>), "absent", "absent"),
     Stage(List(<<Setting("INFO", "true", "true")>>), "certificate", "true"),
     Bucket(NoEncryption),
     Bucket(Encryption(List(<<EncryptionRule("absent", ByDefault("AES256"))>>))),
     Bucket(Encryption(List(<<EncryptionRule("absent", ByDefault("aws:kms"))>>))),
     BucketPolicy(List(<<>>)),
     BucketPolicy(List(<<"deny-insecure-transport">>)),
     [variant |-> "CfnVPC"]}

(***************************************************************************)
(* Specifications.  Each starts from a checker constructed with a config   *)
(* and a tree the driver is about to walk.                                 *)
(***************************************************************************)
Start(configs, trees) ==
    /\ config \in configs
    /\ tree \in trees
    /\ pending = 1..Len(tree)
    /\ messages = <<>>
    /\ threw = FALSE
    /\ calls = [i \in 1..Len(tree) |-> 0]

Single(nodes) == {<<n>> : n \in nodes}

\* Every rule group, under the configs that set up to MaxConfigLeaves leaves.
Init == Start(Configs, Single(Fixtures))
Next == VisitNode
Spec == Init /\ [][Next]_vars

\* The RDS rule group on the RDS nodes.
InitRDS == Start(GroupConfigs("rds"), Single(RdsNodes))
NextRDS == VisitNode
SpecRDS == InitRDS /\ [][NextRDS]_vars

\* The IAM rule group on the IAM policies.
InitIAM == Start(GroupConfigs("iam"), Single(IamNodes))
NextIAM == VisitNode
SpecIAM == InitIAM /\ [][NextIAM]_vars

\* A cluster and its two member instances, as one tree.
MonitoringIntervals == {Undef, Num(0), Num(-1), Num(60)}
Members ==
    {[MemberOf(b) EXCEPT !.monitoringInterval = m] :
        b \in {CompliantInstance, ViolatingInstance}, m \in MonitoringIntervals}
ClusterTrees ==
    {<<c, m1, m2>> : c \in {CompliantCluster, ViolatingCluster}, m1 \in Members, m2 \in Members}
ClusterConfigs ==
    GroupConfigs("rds")
    \cup {[AllUndefinedConfig EXCEPT !["rds"] =
            [defined |-> TRUE,
             leaves |-> [UndefinedCategory("rds").leaves EXCEPT !["enhancedMonitoring"] = "false"]]]}

InitCluster == Start(ClusterConfigs, ClusterTrees)
NextCluster == VisitNode
SpecCluster == InitCluster /\ [][NextCluster]_vars

\* The S3 rule group on buckets and bucket policies.
Algorithms == {"AES-256", "aws:kms", "AES256"}
EncryptionRules ==
    {UnresolvedRule}
    \cup {EncryptionRule(key, default) :
            key \in Flags,
            default \in {NoDefault, ResolvableDefault} \cup {ByDefault(alg) : alg \in Algorithms}}
Buckets ==
    {Bucket(NoEncryption), Bucket(ResolvableEncryption),
     Bucket(Encryption(NoList)), Bucket(Encryption(ResolvableList))}
    \cup {Bucket(Encryption(List(rules))) : rules \in SeqsUpTo(EncryptionRules, MaxRules)}
S3Nodes ==
    Buckets \cup {BucketPolicy(NoList), BucketPolicy(List(<<>>)),
                  BucketPolicy(List(<<"deny-insecure-transport">>))}
S3Configs == {[AllUndefinedConfig EXCEPT !["s3"] = c] : c \in CategoryConfigs("s3")}

InitS3 == Start(S3Configs, Single(S3Nodes))
NextS3 == VisitBucket
SpecS3 == InitS3 /\ [][NextS3]_vars

\* One checker walking a tree of several constructs, some of them alike.
WalkNodes ==
    {ViolatingInstance, ViolatingCluster,
     Policy(List(<<Allow(<<Star, S3Star>>, <<Star>>)>>)), Policy(ResolvableList),
     Bucket(NoEncryption)}
WalkTrees == SeqsUpTo(WalkNodes, MaxTree) \ {<<>>}
WalkConfigs == {DefaultConfig, AllUndefinedConfig}

InitWalk == Start(WalkConfigs, WalkTrees)
NextWalk == VisitNode \/ VisitNodeAgain
SpecWalk == InitWalk /\ [][NextWalk]_vars

\* A lazy list as the AutoScalingGroup construct hands it to its CfnAutoScalingGroup:
\* before synthesis the property holds an array of one token string, whatever the
\* list it will produce.
LazyList(produce) == [kind |-> "array", items |-> <<"${Token[TOKEN]}">>, produce |-> produce]

\* AutoScalingGroupsBuilder.build: the CfnAutoScalingGroup of the group it returns.
build(withHealthCheck, withClassic, withApplication, withNetwork) ==
    [variant |-> "CfnAutoScalingGroup",
     loadBalancerNames |-> LazyList(IF withClassic THEN <<"classic-lb">> ELSE <<>>),
     targetGroupArns |->
        LazyList((IF withApplication THEN <<"arn:application-target-group">> ELSE <<>>)
                 \o (IF withNetwork THEN <<"arn:network-target-group">> ELSE <<>>)),
     healthCheckType |-> IF withHealthCheck THEN "ELB" ELSE "absent",
     healthCheckGracePeriod |-> IF withHealthCheck THEN Num(300) ELSE Undef]

\* Auto Scaling groups: those the builder makes, and CfnAutoScalingGroup constructs
\* given their properties directly, classic load balancers by name, application and
\* network load balancers through target groups.
AsgNodes ==
    {build(h, c, a, n) : h \in BOOLEAN, c \in BOOLEAN, a \in BOOLEAN, n \in BOOLEAN}
    \cup {[Group(names, type, grace) EXCEPT !.targetGroupArns = arns] :
            names \in {NoList, List(<<>>), List(<<"classic-lb">>)},
            type \in {"absent", "EC2", "ELB"},
            grace \in {Undef, Num(0), Num(300)},
            arns \in {NoList, List(<<"arn:target-group">>)}}

InitASG == Start(GroupConfigs("autoScalingGroup"), Single(AsgNodes))
NextASG == VisitNode
SpecASG == InitASG /\ [][NextASG]_vars

\* DynamoDB tables, owned by a Table construct or not.
Tables ==
    {[Table(hasScaling, Scaling(read, write), recovery) EXCEPT !.scopeIsTable = owned] :
        hasScaling \in BOOLEAN, read \in BOOLEAN, write \in BOOLEAN,
        recovery \in {NoRecovery, ResolvableRecovery} \cup {Recovery(enabled) : enabled \in Flags},
        owned \in BOOLEAN}

InitDynamo == Start(GroupConfigs("dynamodb"), Single(Tables))
NextDynamo == VisitNode
SpecDynamo == InitDynamo /\ [][NextDynamo]_vars

\* The single-class aspect on a construct of every variant, a REST API among them.
InitDeclared ==
    Start(Configs, Single(Fixtures \cup {[variant |-> "CfnRestApi"], Function("nodejs8.10")}))
NextDeclared == VisitAspect
SpecDeclared == InitDeclared /\ [][NextDeclared]_vars

\* Stages: method settings that vary the logging level, and method settings that
\* vary the two cache flags.
Settings ==
    {UnresolvedSetting, Setting("OFF", "true", "false")}
    \cup {Setting(level, "absent", "absent") : level \in {"absent", "OFF", "ERROR", "INFO"}}
    \cup {Setting("INFO", caching, encrypted) : caching \in Flags, encrypted \in Flags}
StageNodes ==
    {Stage(settings, "certificate", "true") :
        settings \in {NoList, ResolvableList} \cup {List(l) : l \in SeqsUpTo(Settings, MaxSettings)}}

\* The rule groups whose rules look into a list or a name: stages, functions of every
\* listed runtime and of others, policies of several wildcard statements, instances
\* of several log exports.
InitGroups ==
    Start({DefaultConfig, AllUndefinedConfig,
           [AllUndefinedConfig EXCEPT !["apigateway"] = AllFalseCategory("apigateway")],
           [AllUndefinedConfig EXCEPT !["lambda"] = AllFalseCategory("lambda")]},
          Single(StageNodes
                 \cup {Function(r) :
                        r \in {"nodejs14.x", "nodejs12.x", "nodejs10.x", "python3.8",
                               "python3.7", "python3.6", "ruby2.7", "ruby2.5", "java11",
                               "java8", "java8.al2", "go1.x", "dotnetcore3.1",
                               "dotnetcore2.1", "absent", "nodejs8.10", "nodejs16.x",
                               "nodejs", "NODEJS14.X", "java8.al", "python3"}}
                 \cup {Policy(List(l)) :
                        l \in SeqsUpTo({Allow(<<S3Star>>, <<Star>>), Allow(<<Star>>, <<Star>>),
                                        Allow(<<Ec2DescribeStar>>, <<BucketArnStar>>)},
                                       MaxStatements)}
                 \cup {[CompliantInstance EXCEPT !.engine = "mysql",
                                                 !.enableCloudwatchLogsExports = l] :
                        l \in LogLists}))
NextGroups == VisitNode
SpecGroups == InitGroups /\ [][NextGroups]_vars

(***************************************************************************)
(* Vocabulary of the properties.                                           *)
(***************************************************************************)
Visited == (1..Len(tree)) \ pending

\* The annotations attached to node i, in order.
DiagnosticsOf(i) ==
    LET onNode(m) == m.id = i IN SelectSeq(messages, onNode)

Raised(i, rule) == \E k \in 1..Len(messages) : messages[k].id = i /\ messages[k].rule = rule

Count(i, rule) ==
    Cardinality({k \in 1..Len(messages) : messages[k].id = i /\ messages[k].rule = rule})

\* The rule group visit hands the node to.
CategoryOf(node) ==
    CASE node.variant = "CfnStage" -> "apigateway"
      [] node.variant = "CfnAutoScalingGroup" -> "autoScalingGroup"
      [] node.variant = "CfnTable" -> "dynamodb"
      [] node.variant = "CfnPolicy" -> "iam"
      [] node.variant = "CfnFunction" -> "lambda"
      [] node.variant \in {"CfnDBInstance", "CfnDBCluster"} -> "rds"
      [] OTHER -> "none"

\* The rule group whose checker takes the node: for a bucket or a bucket policy the S3
\* group, which is checked by its own checker only.
GroupOf(node) == IF node.variant \in S3Variants THEN "s3" ELSE CategoryOf(node)

\* What that checker gives on the node.
CheckedBy(cfg, node) ==
    IF node.variant \in S3Variants
    THEN Returned(S3CheckCompliance(cfg["s3"], node))
    ELSE visit(cfg, node)

\* The rule identifiers a config leaf stands for.
LeafRules(cat, leaf) ==
    CASE cat = "apigateway" /\ leaf = "logging" -> {"APIGateway.1"}
      [] cat = "apigateway" /\ leaf = "ssl" -> {"APIGateway.2"}
      [] cat = "apigateway" /\ leaf = "xray" -> {"APIGateway.3"}
      [] cat = "apigateway" /\ leaf = "cacheDataEncrypted" -> {"APIGateway.5"}
      [] cat = "autoScalingGroup" /\ leaf = "loadBalancerHealthCheck" -> {"AutoScaling.1"}
      [] cat = "dynamodb" /\ leaf = "autoScaling" -> {"DynamoDB.1"}
      [] cat = "dynamodb" /\ leaf = "pointInTimeRecovery" -> {"DynamoDB.2"}
      [] cat = "iam" /\ leaf = "fullAdmin" -> {"IAM.1"}
      [] cat = "iam" /\ leaf = "wildcardServiceActions" -> {"IAM.21"}
      [] cat = "lambda" /\ leaf = "supportedRuntimes" -> {"Lambda.2"}
      [] cat = "rds" /\ leaf = "publicAccess" -> {"RDS.2"}
      [] cat = "rds" /\ leaf = "storageEncrypted" -> {"RDS.3"}
      [] cat = "rds" /\ leaf = "multiAz" -> {"RDS.5"}
      [] cat = "rds" /\ leaf = "enhancedMonitoring" -> {"RDS.6"}
      [] cat = "rds" /\ leaf = "deletionProtection" -> {"RDS.8"}
      [] cat = "rds" /\ leaf = "logExports" -> {"RDS.9"}
      [] cat = "rds" /\ leaf = "iamAuth" -> {"RDS.10", "RDS.12"}
      [] cat = "rds" /\ leaf = "autoMinorVersionUpgrades" -> {"RDS.13"}
      [] cat = "rds" /\ leaf = "copyTagsToSnapshot" -> {"RDS.16", "RDS.17"}
      [] cat = "s3" /\ leaf = "serverSideEncryption" -> {"S3.4"}
      [] cat = "s3" /\ leaf = "ssl" -> {"S3.5"}

\* What the rule of a leaf finds on a node of its group, whatever the config.
Finding(cat, leaf, node) ==
    CASE cat = "apigateway" /\ leaf = "logging" -> checkAPILogging(node)
      [] cat = "apigateway" /\ leaf = "ssl" -> checkSSL(node)
      [] cat = "apigateway" /\ leaf = "xray" -> checkXRay(node)
      [] cat = "apigateway" /\ leaf = "cacheDataEncrypted" -> checkCacheEncrypted(node)
      [] cat = "autoScalingGroup" /\ leaf = "loadBalancerHealthCheck" -> checkLoadBalancerHealthCheck(node)
      [] cat = "dynamodb" /\ leaf = "autoScaling" -> checkAutoScaling(node)
      [] cat = "dynamodb" /\ leaf = "pointInTimeRecovery" -> checkPointInTimeRecovery(node)
      [] cat = "iam" /\ leaf = "fullAdmin" -> checkIAMPolicyFullAdmin(node).diags
      [] cat = "iam" /\ leaf = "wildcardServiceActions" -> checkIAMPolicyServiceWildcards(node).diags
      [] cat = "lambda" /\ leaf = "supportedRuntimes" -> checkLambdaSupportedRuntime(node)
      [] cat = "rds" /\ leaf = "publicAccess" -> checkRDSPublicAccess(node)
      [] cat = "rds" /\ leaf = "storageEncrypted" -> checkRDSEncryption(node)
      [] cat = "rds" /\ leaf = "multiAz" -> checkMultipleAZs(node)
      [] cat = "rds" /\ leaf = "enhancedMonitoring" -> checkEnhancedMonitoring(node)
      [] cat = "rds" /\ leaf = "deletionProtection" -> checkDeletionProtection(node)
      [] cat = "rds" /\ leaf = "logExports" -> checkLogExports(node)
      [] cat = "rds" /\ leaf = "iamAuth" -> checkIAMAuthentication(node)
      [] cat = "rds" /\ leaf = "autoMinorVersionUpgrades" -> checkMinorVersionUpgrades(node)
      [] cat = "rds" /\ leaf = "copyTagsToSnapshot" -> checkCopyTagsToSnapshot(node)
      [] cat = "s3" /\ leaf = "serverSideEncryption" -> checkServerSideEncryption(node)
      [] cat = "s3" /\ leaf = "ssl" -> S3checkSSL(node)

\* The node violates the rule of the leaf.
Violates(node, cat, leaf) == GroupOf(node) = cat /\ Finding(cat, leaf, node) # <<>>

\* The leaf is explicitly false.
ExplicitlyFalse(cat, leaf) == config[cat].defined /\ config[cat].leaves[leaf] = "false"

\* The config does not set the leaf: no category object, or no leaf key.
NotSet(cat, leaf) == Leaf(config[cat], leaf) = "absent"

(***************************************************************************)
(* C1.  When the config leaf of a rule is explicitly false, a visit of a   *)
(* node that violates the rule attaches no diagnostic of that rule.        *)
(***************************************************************************)
C1_GateIsAuthoritative ==
    \A i \in Visited : \A cat \in Categories : \A leaf \in LeafNames(cat) :
        (ExplicitlyFalse(cat, leaf) /\ Violates(tree[i], cat, leaf))
            => \A rule \in LeafRules(cat, leaf) : ~Raised(i, rule)

\* A violating node of every rule group has been visited with its rule switched off.
C1_Witness ==
    \E i \in Visited : \E leaf \in LeafNames("rds") :
        /\ tree[i] = ViolatingInstance
        /\ ExplicitlyFalse("rds", leaf)
        /\ Violates(tree[i], "rds", leaf)
        /\ DiagnosticsOf(i) # <<>>

(***************************************************************************)
(* C2.  A rule whose leaf the config does not set (no category object, or  *)
(* no leaf key) is enabled for every rule group: a visited node that       *)
(* violates the rule carries the diagnostic of that rule.                  *)
(***************************************************************************)
C2_DefaultEnabled ==
    \A i \in Visited : \A cat \in Categories : \A leaf \in LeafNames(cat) :
        (NotSet(cat, leaf) /\ Violates(tree[i], cat, leaf))
            => \A k \in 1..Len(Finding(cat, leaf, tree[i])) :
                    Raised(i, Finding(cat, leaf, tree[i])[k].rule)

OtherRules(diags, rules) ==
    LET other(d) == d.rule \notin rules IN SelectSeq(diags, other)

WithLeaf(cfg, cat, leaf, v) ==
    [cfg EXCEPT ![cat] = [defined |-> TRUE, leaves |-> [cfg[cat].leaves EXCEPT ![leaf] = v]]]

(***************************************************************************)
(* C3.  Rule gates are independent: had the config differed in the leaf of *)
(* one rule only, the visited node would carry the same diagnostics of     *)
(* every other rule.                                                       *)
(***************************************************************************)
C3_GatesIndependent ==
    \A i \in Visited : \A cat \in Categories : \A leaf \in LeafNames(cat) :
        \A v \in {"absent", "true", "false"} :
            config[cat].defined =>
                OtherRules(Attach(i, CheckedBy(WithLeaf(config, cat, leaf, v), tree[i]).diags),
                           LeafRules(cat, leaf))
                = OtherRules(DiagnosticsOf(i), LeafRules(cat, leaf))

(***************************************************************************)
(* Vocabulary of the RDS properties.                                       *)
(***************************************************************************)
IsRds(node) == node.variant \in {"CfnDBInstance", "CfnDBCluster"}
Standalone(node) == node.variant = "CfnDBInstance" /\ node.dbClusterIdentifier = "absent"
Enabled(cat, leaf) == OrTrue(Leaf(config[cat], leaf))
AllRdsEnabled == \A leaf \in LeafNames("rds") : Enabled("rds", leaf)

PubliclyAccessibleInstance == [CompliantInstance EXCEPT !.publiclyAccessible = "true"]

(***************************************************************************)
(* C4.  With every RDS rule enabled, a standalone instance that is         *)
(* publicly accessible and compliant in everything else (monitoring        *)
(* interval 60, log exports ["error"], engine sqlserver-ee) carries        *)
(* exactly one diagnostic: the RDS.2 error with its message.               *)
(***************************************************************************)
C4_OnlyPublicAccess ==
    \A i \in Visited :
        (AllRdsEnabled /\ tree[i] = PubliclyAccessibleInstance)
            => DiagnosticsOf(i) =
                 <<[id |-> i, level |-> "error", rule |-> "RDS.2",
                    data |-> "[RDS.2] RDS DB instances should prohibit public access, determined by the PubliclyAccessible configuration"]>>

C4_Witness ==
    \E i \in Visited :
        AllRdsEnabled /\ tree[i] = PubliclyAccessibleInstance /\ Len(messages) = 1

(***************************************************************************)
(* C5.  RDS.2 is raised only for an instance whose publiclyAccessible is   *)
(* the known value true; absent or Unresolved it is not raised, and it is  *)
(* never raised for a cluster.                                             *)
(***************************************************************************)
C5_OnlyKnownTrue ==
    \A i \in Visited :
        (IsRds(tree[i]) /\ Raised(i, "RDS.2"))
            => IsInstance(tree[i]) /\ tree[i].publiclyAccessible = "true"

\* property, rule, config leaf
InstanceFlagRules ==
    {<<"storageEncrypted", "RDS.3", "storageEncrypted">>,
     <<"multiAz", "RDS.5", "multiAz">>,
     <<"deletionProtection", "RDS.8", "deletionProtection">>,
     <<"enableIamDatabaseAuthentication", "RDS.10", "iamAuth">>,
     <<"autoMinorVersionUpgrade", "RDS.13", "autoMinorVersionUpgrades">>,
     <<"copyTagsToSnapshot", "RDS.17", "copyTagsToSnapshot">>}

(***************************************************************************)
(* C6.  On a standalone instance an Unresolved storageEncrypted, multiAz,  *)
(* deletionProtection, enableIamDatabaseAuthentication,                    *)
(* autoMinorVersionUpgrade or copyTagsToSnapshot is non-compliant, so the  *)
(* enabled rule of the property (RDS.3, 5, 8, 10, 13, 17) raises its       *)
(* diagnostic, as it does for false or absent.                             *)
(***************************************************************************)
C6_UnresolvedRaises ==
    \A i \in Visited : \A t \in InstanceFlagRules :
        (Standalone(tree[i]) /\ Enabled("rds", t[3]) /\ tree[i][t[1]] = "unresolved")
            => Raised(i, t[2])

Whitelist(engine) ==
    CASE engine \in {"mysql", "aurora", "aurora-mysql", "mariadb"} ->
            {"audit", "error", "general", "slowquery"}
      [] engine \in {"oracle-ee", "oracle-se2"} -> {"alert", "audit", "trace", "listener"}
      [] engine \in {"postgres", "aurora-postgres"} -> {"postgresql", "upgrade"}
      [] engine \in {"sqlserver-ee", "sqlserver-ex", "sqlserver-se", "sqlserver-web"} ->
            {"error", "agent"}

Exports(node) == node.enableCloudwatchLogsExports
ExportsLogs(node) == IsCluster(node) \/ Standalone(node)

(***************************************************************************)
(* C8.  For a listed engine, on a cluster or a standalone instance with    *)
(* the rule enabled, RDS.9 is raised exactly when the log-export list is   *)
(* absent, is empty, or holds a type outside the engine's whitelist.       *)
(***************************************************************************)
C8_LogExportsListedEngine ==
    \A i \in Visited :
        (IsRds(tree[i]) /\ ExportsLogs(tree[i]) /\ tree[i].engine \in ListedEngines
         /\ Enabled("rds", "logExports"))
            => (Raised(i, "RDS.9") <=>
                    \/ Exports(tree[i]).kind = "undefined"
                    \/ Exports(tree[i]).items = <<>>
                    \/ \E k \in 1..Len(Exports(tree[i]).items) :
                            Exports(tree[i]).items[k] \notin Whitelist(tree[i].engine))

\* A PostgreSQL node exporting a whitelisted and a foreign log type carries RDS.9.
C8_Witness ==
    \E i \in Visited :
        /\ IsRds(tree[i]) /\ ExportsLogs(tree[i])
        /\ tree[i].engine = "postgres"
        /\ Exports(tree[i]) = List(<<"postgresql", "slowquery">>)
        /\ Raised(i, "RDS.9")

(***************************************************************************)
(* C9.  For an engine that is not listed (or absent), on a cluster or a    *)
(* standalone instance with the rule enabled, RDS.9 is raised for every    *)
(* list of real log types, and when the list is absent.                    *)
(***************************************************************************)
C9_LogExportsOtherEngine ==
    \A i \in Visited :
        (/\ IsRds(tree[i]) /\ ExportsLogs(tree[i])
         /\ tree[i].engine \notin ListedEngines
         /\ Enabled("rds", "logExports")
         /\ \/ Exports(tree[i]).kind = "undefined"
            \/ \A k \in 1..Len(Exports(tree[i]).items) :
                    Exports(tree[i]).items[k] \in RealLogTypes)
            => Count(i, "RDS.9") = 1

\* A node of an unlisted engine exporting real log types carries RDS.9.
C9_Witness ==
    \E i \in Visited :
        /\ IsRds(tree[i]) /\ ExportsLogs(tree[i])
        /\ tree[i].engine = "db2"
        /\ Exports(tree[i]) = List(<<"error", "audit">>)
        /\ Raised(i, "RDS.9")

MonitoringDisabled(node) ==
    node.monitoringInterval.kind = "undefined" \/ node.monitoringInterval.value < 1
AllRaised(rule) == {k \in 1..Len(messages) : messages[k].rule = rule}

(***************************************************************************)
(* C7.  RDS.6 is judged on instances only: once a cluster and its two      *)
(* member instances have each been visited, with the rule enabled and      *)
(* monitoring disabled on both instances (interval absent, 0 or below 1),  *)
(* there are exactly two RDS.6 diagnostics, one on each instance and none  *)
(* on the cluster.                                                         *)
(***************************************************************************)
C7_OnePerMemberInstance ==
    (/\ pending = {}
     /\ Len(tree) = 3
     /\ IsCluster(tree[1])
     /\ Enabled("rds", "enhancedMonitoring")
     /\ \A i \in 2..3 : IsInstance(tree[i]) /\ MonitoringDisabled(tree[i]))
        => /\ Cardinality(AllRaised("RDS.6")) = 2
           /\ Count(1, "RDS.6") = 0
           /\ \A i \in 2..3 : Count(i, "RDS.6") = 1

\* The cluster and both its instances, one without an interval and one with interval
\* 0, have been visited with the rule enabled.
C7_Witness ==
    /\ pending = {}
    /\ Len(tree) = 3
    /\ IsCluster(tree[1])
    /\ Enabled("rds", "enhancedMonitoring")
    /\ tree[2].monitoringInterval = Undef
    /\ tree[3].monitoringInterval = Num(0)
    /\ tree[3].dbClusterIdentifier # "absent"
    /\ Raised(2, "RDS.6") /\ Raised(3, "RDS.6")

(***************************************************************************)
(* C10.  With the rule enabled, IAM.1 is raised for a policy exactly when  *)
(* some single statement has effect Allow, an action list containing "*"   *)
(* and a resource list containing "*".                                     *)
(***************************************************************************)
C10_FullAdmin ==
    \A i \in Visited :
        (tree[i].variant = "CfnPolicy" /\ Enabled("iam", "fullAdmin"))
            => (Raised(i, "IAM.1") <=>
                    /\ tree[i].policyDocument.hasStatements
                    /\ tree[i].policyDocument.statements.kind = "array"
                    /\ \E k \in 1..Len(tree[i].policyDocument.statements.items) :
                        LET s == tree[i].policyDocument.statements.items[k]
                        IN /\ s.effect = "Allow"
                           /\ s.action.kind = "array"
                           /\ \E a \in 1..Len(s.action.items) : s.action.items[a] = Star
                           /\ s.resource.kind = "array"
                           /\ \E r \in 1..Len(s.resource.items) : s.resource.items[r] = Star)

\* The statements of a policy document, none when it has no array of them.
StatementsOf(node) ==
    IF node.policyDocument.hasStatements /\ node.policyDocument.statements.kind = "array"
    THEN node.policyDocument.statements.items
    ELSE <<>>

\* The action ends in ":*".
ServiceWildcard(a) == Len(a) >= 2 /\ a[Len(a) - 1] = ":" /\ a[Len(a)] = "*"

FullAdminPolicy == Policy(List(<<Allow(<<Star>>, <<Star>>)>>))

(***************************************************************************)
(* C11.  With the rule enabled, IAM.21 is raised for a policy exactly when *)
(* some Allow statement has an action ending in ":*"; "*" alone and        *)
(* "ec2:Describe*" do not raise it, and a full-admin policy carries        *)
(* exactly one diagnostic, IAM.1.                                          *)
(***************************************************************************)
C11_ServiceWildcard ==
    \A i \in Visited :
        tree[i].variant = "CfnPolicy" =>
            /\ Enabled("iam", "wildcardServiceActions") =>
                (Raised(i, "IAM.21") <=>
                    \E k \in 1..Len(StatementsOf(tree[i])) :
                        LET s == StatementsOf(tree[i])[k]
                        IN /\ s.effect = "Allow"
                           /\ s.action.kind = "array"
                           /\ \E a \in 1..Len(s.action.items) : ServiceWildcard(s.action.items[a]))
            /\ (tree[i] = FullAdminPolicy /\ Enabled("iam", "fullAdmin")
                /\ Enabled("iam", "wildcardServiceActions"))
                    => /\ Len(DiagnosticsOf(i)) = 1
                       /\ DiagnosticsOf(i)[1].rule = "IAM.1"

IsBucket(node) == node.variant = "CfnBucket"

\* The serverSideEncryption leaf the S3 checker was constructed with is true.
SseSwitchedOn == config["s3"].defined /\ config["s3"].leaves["serverSideEncryption"] = "true"

\* The ways a bucket violates the server-side-encryption rule.
SseViolation(bucket) ==
    LET encryption == bucket.bucketEncryption
        list == encryption.serverSideEncryptionConfiguration
        first == list.items[1]
        block == first.serverSideEncryptionByDefault
    IN \/ encryption.kind \in {"undefined", "resolvable"}
       \/ list.kind \in {"undefined", "resolvable"}
       \/ list.items = <<>>
       \/ first.resolvable
       \/ first.bucketKeyEnabled \in {"unresolved", "false"}
       \/ block.kind \in {"undefined", "resolvable"}
       \/ block.sseAlgorithm \notin {"AES-256", "aws:kms"}

(***************************************************************************)
(* C12.  Every way a bucket can violate the server-side-encryption rule    *)
(* yields exactly one diagnostic, an error whose message is exactly        *)
(* "[S3.4] S3 buckets should have server-side encryption enabled".         *)
(***************************************************************************)
C12_OneMessage ==
    \A i \in Visited :
        (IsBucket(tree[i]) /\ SseSwitchedOn /\ SseViolation(tree[i]))
            => DiagnosticsOf(i) =
                 <<[id |-> i, level |-> "error", rule |-> "S3.4",
                    data |-> "[S3.4] S3 buckets should have server-side encryption enabled"]>>

(***************************************************************************)
(* C13.  With the serverSideEncryption leaf true, S3.4 is raised for a     *)
(* bucket exactly when the encryption config is absent or Unresolved, or   *)
(* its list is absent, Unresolved or empty, or the first entry is          *)
(* Unresolved, or its bucketKeyEnabled is Unresolved or false, or its      *)
(* default block is absent or Unresolved, or its algorithm is neither      *)
(* "AES-256" nor "aws:kms".  Entries after the first do not matter.        *)
(***************************************************************************)
C13_SsePredicate ==
    \A i \in Visited :
        (IsBucket(tree[i]) /\ SseSwitchedOn)
            => /\ Raised(i, "S3.4") <=> SseViolation(tree[i])
               /\ Count(i, "S3.4") <= 1

\* A bucket whose first entry is "aws:kms" with no bucketKeyEnabled and whose second
\* entry is Unresolved has been visited and carries nothing.
C13_Witness ==
    \E i \in Visited :
        /\ SseSwitchedOn
        /\ tree[i] = Bucket(Encryption(List(<<EncryptionRule("absent", ByDefault("aws:kms")),
                                              UnresolvedRule>>)))
        /\ DiagnosticsOf(i) = <<>>

(***************************************************************************)
(* C14.  Every diagnostic of every rule is an error, except the            *)
(* copy-tags-to-snapshot diagnostics RDS.16 and RDS.17, which are always   *)
(* warnings.                                                               *)
(***************************************************************************)
C14_Severity ==
    \A k \in 1..Len(messages) :
        messages[k].level = IF messages[k].rule \in {"RDS.16", "RDS.17"} THEN "warning" ELSE "error"

\* A node carries a copy-tags warning next to the error of another rule.
C14_Witness ==
    \E k, l \in 1..Len(messages) :
        /\ messages[k].rule \in {"RDS.16", "RDS.17"}
        /\ messages[k].level = "warning"
        /\ messages[l].rule \in {"RDS.3", "RDS.8"}
        /\ messages[l].level = "error"

\* The rule belongs to the rule group.
RuleOf(cat, rule) == \E leaf \in LeafNames(cat) : rule \in LeafRules(cat, leaf)

(***************************************************************************)
(* C15.  A visit of a node whose variant has no rule group attaches        *)
(* nothing and does not fail; a visit of a node of a known variant runs    *)
(* the rule group of that variant only, so every diagnostic on the node    *)
(* is one of its own group.                                                *)
(***************************************************************************)
C15_Dispatch ==
    \A i \in Visited :
        IF CategoryOf(tree[i]) = "none"
        THEN DiagnosticsOf(i) = <<>> /\ ~threw
        ELSE \A k \in 1..Len(DiagnosticsOf(i)) :
                RuleOf(CategoryOf(tree[i]), DiagnosticsOf(i)[k].rule)

\* The node of no group has been visited under the config that enables every rule.
C15_Witness ==
    \E i \in Visited :
        /\ config = DefaultConfig
        /\ tree[i].variant = "CfnVPC"
        /\ messages = <<>>

(***************************************************************************)
(* C16.  visit never throws: every call returns normally, also for a       *)
(* policy whose Allow statement has no action or resource list or whose    *)
(* statement list is Unresolved.                                           *)
(***************************************************************************)
C16_NeverThrows == ~threw

\* What a call on the node attaches when it is the first call on the checker.
\* What a checker constructed with this config attaches when the node is the first
\* it is given.
AsFirstCall(node) == visit(config, node).diags

RECURSIVE Repeated(_, _)
Repeated(diags, n) == IF n = 0 THEN <<>> ELSE diags \o Repeated(diags, n - 1)

SameDiagnostics(attached, diags) ==
    /\ Len(attached) = Len(diags)
    /\ \A k \in 1..Len(diags) :
        /\ attached[k].rule = diags[k].rule
        /\ attached[k].level = diags[k].level
        /\ attached[k].data = diags[k].data

IsGroup(node) == node.variant = "CfnAutoScalingGroup"
HealthCheckOn == Enabled("autoScalingGroup", "loadBalancerHealthCheck")
\* The list the property holds once synthesized has an element.
NonEmpty(list) ==
    /\ list.kind = "array"
    /\ (IF "produce" \in DOMAIN list THEN list.produce ELSE list.items) # <<>>

\* The group is behind an application or network load balancer only.
ThroughTargetGroups(group) ==
    NonEmpty(group.targetGroupArns) /\ ~NonEmpty(group.loadBalancerNames)

(***************************************************************************)
(* C18.  With the rule enabled, a group behind an application or network   *)
(* load balancer (target groups, no classic load-balancer name) with no    *)
(* health check raises AutoScaling.1 exactly once, and the same group with *)
(* an ELB health check and a grace period raises nothing.                  *)
(***************************************************************************)
C18_TargetGroups ==
    \A i \in Visited :
        (IsGroup(tree[i]) /\ HealthCheckOn /\ ThroughTargetGroups(tree[i])) =>
            /\ (tree[i].healthCheckType = "absent" /\ tree[i].healthCheckGracePeriod = Undef)
                  => (Count(i, "AutoScaling.1") = 1 /\ Len(DiagnosticsOf(i)) = 1)
            /\ (tree[i].healthCheckType = "ELB" /\ tree[i].healthCheckGracePeriod = Num(300))
                  => DiagnosticsOf(i) = <<>>

\* The group has at least one associated load balancer, of either kind.
Associated(group) == NonEmpty(group.loadBalancerNames) \/ NonEmpty(group.targetGroupArns)

(***************************************************************************)
(* C19.  With the rule enabled, AutoScaling.1 is raised exactly when the   *)
(* group has an associated load balancer and its health-check type or its  *)
(* grace period is unset; a grace period of 0 counts as set.               *)
(***************************************************************************)
C19_HealthCheck ==
    \A i \in Visited :
        (IsGroup(tree[i]) /\ HealthCheckOn) =>
            (Raised(i, "AutoScaling.1") <=>
                /\ Associated(tree[i])
                /\ (tree[i].healthCheckType = "absent" \/ tree[i].healthCheckGracePeriod = Undef))

IsOwnedTable(node) == node.variant = "CfnTable" /\ node.scopeIsTable
LacksScaling(table) ==
    \/ ~table.scope.hasTableScaling
    \/ ~table.scope.tableScaling.hasScalableReadAttribute
    \/ ~table.scope.tableScaling.hasScalableWriteAttribute

(***************************************************************************)
(* C20.  With the rule enabled, a table owned by a Table construct raises  *)
(* DynamoDB.1 exactly once when it has no table-scaling sub-object or the  *)
(* sub-object lacks the scalable-read or the scalable-write attribute, and *)
(* not at all when both are present.                                       *)
(***************************************************************************)
C20_AutoScaling ==
    \A i \in Visited :
        (IsOwnedTable(tree[i]) /\ Enabled("dynamodb", "autoScaling")) =>
            Count(i, "DynamoDB.1") = IF LacksScaling(tree[i]) THEN 1 ELSE 0

\* A table that scales reads but not writes has been visited and reported once.
C20_Witness ==
    \E i \in Visited :
        /\ IsOwnedTable(tree[i]) /\ Enabled("dynamodb", "autoScaling")
        /\ tree[i].scope.hasTableScaling
        /\ tree[i].scope.tableScaling.hasScalableReadAttribute
        /\ ~tree[i].scope.tableScaling.hasScalableWriteAttribute
        /\ Count(i, "DynamoDB.1") = 1

(***************************************************************************)
(* C21.  The two rules without a body never raise: no diagnostic carries   *)
(* RDS.1 or Lambda.1, for any construct under any config.                  *)
(***************************************************************************)
C21_StubsSilent ==
    \A k \in 1..Len(messages) : messages[k].rule \notin {"RDS.1", "Lambda.1"}

\* A violating instance has been visited under the default config: its other rules
\* are raised, RDS.1 is not.
C21_Witness ==
    /\ config = DefaultConfig
    /\ tree = <<ViolatingInstance>>
    /\ pending = {}
    /\ Raised(1, "RDS.2")
    /\ ~Raised(1, "RDS.1")

IsFunction(node) == node.variant = "CfnFunction"

\* The runtime identifiers the rule accepts.
AllowListed ==
    {"nodejs14.x", "nodejs12.x", "nodejs10.x", "python3.8", "python3.7", "python3.6",
     "ruby2.7", "ruby2.5", "java11", "java8", "java8.al2", "go1.x", "dotnetcore3.1",
     "dotnetcore2.1"}

(***************************************************************************)
(* C22.  With the rule enabled, Lambda.2 is raised for a function exactly  *)
(* when its runtime name is not one of the 14 allow-listed identifiers; an *)
(* absent runtime raises it and names are compared exactly.                *)
(***************************************************************************)
C22_SupportedRuntime ==
    \A i \in Visited :
        (IsFunction(tree[i]) /\ Enabled("lambda", "supportedRuntimes")) =>
            Count(i, "Lambda.2") = IF tree[i].runtime \in AllowListed THEN 0 ELSE 1

\* Every allow-listed runtime is offered, and a function without a runtime has been
\* reported.
C22_Witness ==
    /\ Cardinality(AllowListed) = 14
    /\ \E i \in Visited :
        /\ tree[i] = Function("absent")
        /\ Enabled("lambda", "supportedRuntimes")
        /\ Count(i, "Lambda.2") = 1

\* The rules an RDS construct of each variant can raise.
RulesOfVariant(node) ==
    IF IsCluster(node) THEN {"RDS.8", "RDS.9", "RDS.12", "RDS.16"}
    ELSE IF Standalone(node)
    THEN {"RDS.2", "RDS.3", "RDS.5", "RDS.6", "RDS.8", "RDS.9", "RDS.10", "RDS.13", "RDS.17"}
    ELSE {"RDS.2", "RDS.6", "RDS.13"}

(***************************************************************************)
(* C23.  Which RDS rules can raise depends on the variant only: a cluster  *)
(* raises only RDS.8, RDS.9, RDS.12, RDS.16; a member instance only RDS.2, *)
(* RDS.6, RDS.13; a standalone instance only RDS.2, RDS.3, RDS.5, RDS.6,   *)
(* RDS.8, RDS.9, RDS.10, RDS.13, RDS.17.  A failing IAM-authentication     *)
(* check gives RDS.10 on a standalone instance, RDS.12 on a cluster, never *)
(* both and nothing on a member instance.                                  *)
(***************************************************************************)
C23_RulesByVariant ==
    \A i \in Visited :
        IsRds(tree[i]) =>
            /\ \A k \in 1..Len(DiagnosticsOf(i)) :
                DiagnosticsOf(i)[k].rule \in RulesOfVariant(tree[i])
            /\ ~(Raised(i, "RDS.10") /\ Raised(i, "RDS.12"))
            /\ (Enabled("rds", "iamAuth") /\ tree[i].enableIamDatabaseAuthentication = "false") =>
                /\ Raised(i, "RDS.10") <=> Standalone(tree[i])
                /\ Raised(i, "RDS.12") <=> IsCluster(tree[i])

\* A member instance that violates every rule has been visited: it carries the three
\* rules of a member, all of them, and no IAM-authentication finding.
C23_Witness ==
    /\ tree = <<MemberOf(ViolatingInstance)>>
    /\ pending = {}
    /\ AllRdsEnabled
    /\ {DiagnosticsOf(1)[k].rule : k \in 1..Len(DiagnosticsOf(1))} = {"RDS.2", "RDS.6", "RDS.13"}

\* The rules of the category that the config leaves enabled.
EnabledRules(cat) == {leaf \in LeafNames(cat) : Enabled(cat, leaf)}

(***************************************************************************)
(* C24.  In one visit each rule gives at most one diagnostic for the node, *)
(* however many of its method settings, statements or log exports violate  *)
(* it, so a visit gives no more diagnostics than the node's category has   *)
(* enabled rules.                                                          *)
(***************************************************************************)
C24_OnePerRule ==
    \A i \in Visited :
        GroupOf(tree[i]) # "none" =>
            /\ \A k \in 1..Len(DiagnosticsOf(i)) : Count(i, DiagnosticsOf(i)[k].rule) = 1
            /\ Len(DiagnosticsOf(i)) <= Cardinality(EnabledRules(GroupOf(tree[i])))

\* A stage with two method settings, both with logging off, carries one APIGateway.1.
C24_Witness ==
    \E i \in Visited :
        /\ tree[i].variant = "CfnStage"
        /\ tree[i].methodSettings.kind = "array"
        /\ Len(tree[i].methodSettings.items) = 2
        /\ \A k \in 1..2 : loggingOff(tree[i].methodSettings.items[k])
        /\ Count(i, "APIGateway.1") = 1

IsStage(node) == node.variant = "CfnStage"

\* The known method settings of a stage; none when the list is absent or Unresolved.
KnownSettings(stage) ==
    IF stage.methodSettings.kind = "array"
    THEN {stage.methodSettings.items[k] : k \in 1..Len(stage.methodSettings.items)}
            \ {UnresolvedSetting}
    ELSE {}

(***************************************************************************)
(* C25.  With the rule enabled, APIGateway.1 is raised for a stage exactly *)
(* when its method settings are not defined, or the list is not Unresolved *)
(* and has an entry that is not Unresolved whose logging level is          *)
(* undefined or "OFF"; one such entry is enough whatever the others are.   *)
(***************************************************************************)
C25_Logging ==
    \A i \in Visited :
        (IsStage(tree[i]) /\ Enabled("apigateway", "logging")) =>
            (Raised(i, "APIGateway.1") <=>
                \/ tree[i].methodSettings.kind = "undefined"
                \/ \E m \in KnownSettings(tree[i]) : m.loggingLevel \in {"absent", "OFF"})

\* A stage whose first method setting logs and whose second has logging off has been
\* reported.
C25_Witness ==
    \E i \in Visited :
        /\ IsStage(tree[i]) /\ Enabled("apigateway", "logging")
        /\ tree[i].methodSettings.kind = "array"
        /\ Len(tree[i].methodSettings.items) = 2
        /\ tree[i].methodSettings.items[1].loggingLevel = "INFO"
        /\ tree[i].methodSettings.items[2] = Setting("OFF", "absent", "absent")
        /\ Raised(i, "APIGateway.1")

(***************************************************************************)
(* C26.  With the rule enabled, APIGateway.5 is raised for a stage exactly *)
(* when its method settings are not defined, or some entry that is not     *)
(* Unresolved has caching enabled and cache-data encryption false or       *)
(* absent; an entry with caching disabled or absent never raises it.       *)
(***************************************************************************)
C26_CacheEncrypted ==
    \A i \in Visited :
        (IsStage(tree[i]) /\ Enabled("apigateway", "cacheDataEncrypted")) =>
            (Raised(i, "APIGateway.5") <=>
                \/ tree[i].methodSettings.kind = "undefined"
                \/ \E m \in KnownSettings(tree[i]) :
                    m.cachingEnabled = "true" /\ m.cacheDataEncrypted \in {"false", "absent"})

(***************************************************************************)
(* C28.  A stage whose method-settings list is defined but empty raises    *)
(* neither APIGateway.1 nor APIGateway.5.                                  *)
(***************************************************************************)
C28_EmptySettings ==
    \A i \in Visited :
        (IsStage(tree[i]) /\ tree[i].methodSettings = List(<<>>)) =>
            ~Raised(i, "APIGateway.1") /\ ~Raised(i, "APIGateway.5")

\* A stage with an empty list has been checked against every API Gateway rule and
\* carries nothing.
C28_Witness ==
    /\ config = DefaultConfig
    /\ tree = <<Stage(List(<<>>), "certificate", "true")>>
    /\ pending = {}
    /\ messages = <<>>

IsTable(node) == node.variant = "CfnTable"

(***************************************************************************)
(* C27.  With the rule enabled, DynamoDB.2 is raised for a table exactly   *)
(* when its point-in-time-recovery specification is absent, or is a known  *)
(* value whose enabled flag is false or absent; an Unresolved              *)
(* specification and a known one with enabled = true never raise it.       *)
(***************************************************************************)
C27_PointInTimeRecovery ==
    \A i \in Visited :
        (IsTable(tree[i]) /\ Enabled("dynamodb", "pointInTimeRecovery")) =>
            LET spec == tree[i].pointInTimeRecoverySpecification
            IN Raised(i, "DynamoDB.2") <=>
                \/ spec.kind = "undefined"
                \/ spec.kind = "object" /\ spec.pointInTimeRecoveryEnabled \in {"false", "absent"}

\* A table with an Unresolved specification has been checked and not reported.
C27_Witness ==
    \E i \in Visited :
        /\ IsTable(tree[i]) /\ Enabled("dynamodb", "pointInTimeRecovery")
        /\ tree[i].pointInTimeRecoverySpecification = ResolvableRecovery
        /\ ~Raised(i, "DynamoDB.2")

(***************************************************************************)
(* C29.  A table whose owning scope is not a Table construct never raises  *)
(* DynamoDB.1, whatever its scaling configuration.                         *)
(***************************************************************************)
C29_UnownedSilent ==
    \A i \in Visited :
        (IsTable(tree[i]) /\ ~tree[i].scopeIsTable) => ~Raised(i, "DynamoDB.1")

\* A table declared directly, without any scaling, has been checked with the rule
\* enabled and carries no DynamoDB.1.
C29_Witness ==
    \E i \in Visited :
        /\ IsTable(tree[i]) /\ ~tree[i].scopeIsTable
        /\ ~tree[i].scope.hasTableScaling
        /\ Enabled("dynamodb", "autoScaling")
        /\ ~Raised(i, "DynamoDB.1")

IsPolicy(node) == node.variant = "CfnPolicy"

(***************************************************************************)
(* C30.  A policy whose document has no own "statements" property raises   *)
(* neither IAM.1 nor IAM.21, whatever else the document contains, and the  *)
(* call returns normally.                                                  *)
(***************************************************************************)
C30_NoStatementsSilent ==
    \A i \in Visited :
        (IsPolicy(tree[i]) /\ ~tree[i].policyDocument.hasStatements) =>
            /\ ~Raised(i, "IAM.1")
            /\ ~Raised(i, "IAM.21")
            /\ (pending = {} => ~threw)

\* A document that holds wildcard statements, but not as its own "statements", has
\* been checked with both rules enabled and carries nothing.
C30_Witness ==
    /\ config = DefaultConfig
    /\ IsPolicy(tree[1]) /\ ~tree[1].policyDocument.hasStatements
    /\ tree[1].policyDocument.statements.kind = "array"
    /\ pending = {}
    /\ messages = <<>>
    /\ ~threw

====
